---- MODULE Spec2Model ----
(***************************************************************************)
(* Kinetic curve analysis and assay validation of                          *)
(* xCelligence_Killing_auto_analysis-Gracell.py, as a state machine: one   *)
(* script run over one uploaded workbook.                                  *)
(*                                                                         *)
(* Encoding.  A cell index is an integer number of hundredths (0.95 is     *)
(* 95), an absent (coerced, non-numeric) cell is NaN.  A time is an        *)
(* integer number of ticks of 0.004 h (250 ticks per hour), so that        *)
(* half-killing times, their means and the two-decimal rounding of the     *)
(* statistics are exact.  A pandas column is a function over the row       *)
(* labels 0..nrows-1 of the RangeIndex; a filtered Series is the column    *)
(* together with the set of row labels it keeps.  A name is a tuple of     *)
(* one-character strings.                                                  *)
(***************************************************************************)
EXTENDS Integers, Sequences, FiniteSets, TLC

VARIABLES
    uploaded_file,              \* uploaded_file.name
    main_data_df,               \* st.session_state.main_data_df
    extracted_treatment_data,   \* st.session_state.extracted_treatment_data
    audit_trail,                \* the sheet "Audit Trail" of the workbook
    effector_time_hours,        \* get_effector_addition_time(excel_file)[0]
    effector_warning,           \* get_effector_addition_time(excel_file)[1]
    pc,                         \* position of the script run
    positive_control,           \* current_file_results['positive_control']
    assay_status,               \* current_file_results['assay_status']
    das_result,                 \* what determine_assay_status returned
    closest_to_half_target_data,\* the per-well result rows
    threshold_violations,       \* wells whose maximum is below the threshold
    stats_df,                   \* current_file_results['stats_df']
    highlighting_data,          \* half_killing_indices of every sample
    checklist,                  \* med_sample_found and local_max_criteria_pass
    all_files_results           \* st.session_state.all_files_results

vars == << uploaded_file, main_data_df, extracted_treatment_data, audit_trail,
           effector_time_hours, effector_warning, pc, positive_control, assay_status,
           das_result, closest_to_half_target_data, threshold_violations,
           stats_df, highlighting_data, checklist, all_files_results >>

----------------------------------------------------------------------------
(* Bounds of the model *)

\* rows of the series table
NumRows == 3

\* rows of the audit trail
MaxAuditRows == 3

\* cell index levels 0, 50, ..., 50 * MaxLevel (hundredths)
MaxLevel == 2

----------------------------------------------------------------------------
(* Values *)

\* pd.to_numeric(..., errors='coerce') of a missing or non-numeric cell
NaN == -1

\* Python's None for an absent time
None == -2

\* h hours in ticks
Hours(h) == h * 250

AbsDiff(a, b) == IF a >= b THEN a - b ELSE b - a

SetMax(S) == CHOOSE x \in S : \A y \in S : y <= x

SetMin(S) == CHOOSE x \in S : \A y \in S : x <= y

----------------------------------------------------------------------------
(* Names: str.upper, str.lower, startswith, `in`, re.search(r"\bonly\b") *)

Upper(c) ==
    CASE c = "a" -> "A" [] c = "b" -> "B" [] c = "c" -> "C" [] c = "d" -> "D"
      [] c = "e" -> "E" [] c = "l" -> "L" [] c = "m" -> "M" [] c = "n" -> "N"
      [] c = "o" -> "O" [] c = "s" -> "S" [] c = "t" -> "T" [] c = "y" -> "Y"
      [] OTHER -> c

Lower(c) ==
    CASE c = "A" -> "a" [] c = "B" -> "b" [] c = "C" -> "c" [] c = "D" -> "d"
      [] c = "E" -> "e" [] c = "L" -> "l" [] c = "M" -> "m" [] c = "N" -> "n"
      [] c = "O" -> "o" [] c = "S" -> "s" [] c = "T" -> "t" [] c = "Y" -> "y"
      [] OTHER -> c

StrUpper(s) == [i \in 1..Len(s) |-> Upper(s[i])]

StrLower(s) == [i \in 1..Len(s) |-> Lower(s[i])]

StartsWith(s, p) == Len(s) >= Len(p) /\ SubSeq(s, 1, Len(p)) = p

\* the positions at which p occurs in s
Occurrences(s, p) ==
    {i \in 1..(Len(s) - Len(p) + 1) : SubSeq(s, i, i + Len(p) - 1) = p}

Contains(s, p) == Occurrences(s, p) # {}

\* \w of the regular expression
IsWordChar(c) ==
    Lower(c) \in {"a", "b", "c", "d", "e", "l", "m", "n", "o", "s", "t", "y",
                  "0", "1", "2", "9", "_"}

\* re.search(r"\bonly\b", s, flags=re.IGNORECASE)
SearchWordOnly(s) ==
    \E i \in Occurrences(StrLower(s), <<"o", "n", "l", "y">>) :
        /\ (i = 1 \/ ~IsWordChar(s[i - 1]))
        /\ (i + 4 > Len(s) \/ ~IsWordChar(s[i + 4]))

\* is_med_only_sample that compares the prefixes case-sensitively
is_med_only_sample_case_sensitive(name) ==
    \/ StartsWith(name, <<"M", "E", "D">>)
    \/ StartsWith(name, <<"C", "M", "M">>)
    \/ SearchWordOnly(name)

\* upper().startswith("MED") or upper().startswith("CMM") or \bonly\b
is_med_only_sample(name) ==
    \/ StartsWith(StrUpper(name), <<"M", "E", "D">>)
    \/ StartsWith(StrUpper(name), <<"C", "M", "M">>)
    \/ SearchWordOnly(name)

assay_type_of(file_name) ==
    IF Contains(StrLower(file_name), <<"c", "d", "1", "9">>) THEN "CD19"
    ELSE IF Contains(StrLower(file_name), <<"b", "c", "m", "a">>) THEN "BCMA"
    ELSE "Unknown"

----------------------------------------------------------------------------
(* get_effector_addition_time.  The audit trail is [sheet, columns, rows]; a  *)
(* row is [ID, Reason, Action, time] and its "Experiment Time" is the record  *)
(* [parts, numeric]: the numbers between the colons, and whether int() reads  *)
(* every part.  The warning "None" is Python's None.                          *)

\* reason_lower matches ef+[ef]?[ce]?[tc]?[o]?r and contains 'add'
marks_effector_addition(reason) ==
    CASE reason = "Added Effector" -> TRUE
      [] reason = "effectors added" -> TRUE
      [] reason = "Added media" -> FALSE
      [] reason = "Effector thawed" -> FALSE
      [] OTHER -> FALSE

\* hours + minutes / 60.0 + seconds / 3600.0, in ticks
total_hours(parts) ==
    Hours(parts[1]) + (Hours(1) * parts[2]) \div 60 + (Hours(1) * parts[3]) \div 3600

\* rows.loc[rows['ID'].idxmax()]: the first row with the largest ID
max_id_row(rows) ==
    LET i == CHOOSE k \in 1..Len(rows) :
                /\ \A j \in 1..Len(rows) : rows[j].ID <= rows[k].ID
                /\ \A j \in 1..(k - 1) : rows[j].ID < rows[k].ID
    IN  rows[i]

\* the body of the try block: kind "return" or "raise"
effector_time_try(trail) ==
    LET ret(t, w) == [kind |-> "return", time |-> t, warning |-> w]
        raise == [kind |-> "raise", time |-> None, warning |-> "None"]
        needs == {"ID", "Experiment Time"}
        effector_rows ==
            IF "Reason" \in trail.columns
            THEN SelectSeq(trail.rows, LAMBDA r : marks_effector_addition(r.Reason))
            ELSE << >>
        continue_exp ==
            SelectSeq(trail.rows, LAMBDA r : r.Action = "Continue Experiment")
        second ==
            IF "Action" \notin trail.columns THEN raise
            ELSE IF Len(continue_exp) # 2
                 THEN ret(None, "Expected exactly 2 'Continue Experiment' actions")
            ELSE IF ~(needs \subseteq trail.columns) THEN raise
            ELSE LET t == max_id_row(continue_exp).time
                 IN  IF Len(t.parts) = 3
                     THEN IF t.numeric THEN ret(total_hours(t.parts), "None")
                          ELSE raise
                     ELSE ret(None, "None")
    IN  IF trail.sheet = "" THEN ret(None, "Audit Trail sheet not found")
        ELSE IF effector_rows # << >>
        THEN IF ~(needs \subseteq trail.columns) THEN raise
             ELSE LET t == max_id_row(effector_rows).time
                  IN  IF Len(t.parts) = 3
                      THEN IF t.numeric THEN ret(total_hours(t.parts), "None")
                           ELSE raise
                      ELSE second
        ELSE second

get_effector_addition_time(trail) ==
    LET r == effector_time_try(trail)
    IN  IF r.kind = "raise"
        THEN [time |-> None, warning |-> "Error reading Audit Trail"]
        ELSE [time |-> r.time, warning |-> r.warning]

----------------------------------------------------------------------------
(* Filtered Series: a column col and the set W of row labels it keeps *)

notna(col, W) == {i \in W : col[i] # NaN}

series_max(col, W) == SetMax({col[i] : i \in notna(col, W)})

idxmax(col, W) == SetMin({i \in notna(col, W) : col[i] = series_max(col, W)})

\* after_effector_mask without the sample at the cut
after_effector_mask_excludes_cut(time_series, rows, eff) ==
    LET d(i) == AbsDiff(time_series[i], eff)
        closest_idx == CHOOSE i \in rows :
                          \A j \in rows : d(i) < d(j) \/ (d(i) = d(j) /\ i <= j)
        closest_time == time_series[closest_idx]
    IN  {i \in rows : time_series[i] > closest_time}

\* the row labels of time_series >= the sampled time closest to eff
after_effector_mask(time_series, rows, eff) ==
    LET d(i) == AbsDiff(time_series[i], eff)
        closest_idx == CHOOSE i \in rows :
                          \A j \in rows : d(i) < d(j) \/ (d(i) = d(j) /\ i <= j)
        closest_time == time_series[closest_idx]
    IN  {i \in rows : time_series[i] >= closest_time}

AllRows(df) == 0 .. (df.nrows - 1)

\* the window of the per-well calculations
well_data_filtered(df, eff) ==
    IF eff # None /\ "Time (Hour)" \in df.columns
    THEN after_effector_mask(df.time, AllRows(df), eff)
    ELSE AllRows(df)

\* data_after_max that keeps the point of the maximum
data_after_max_keeps_max(col, W) == {j \in W : j >= idxmax(col, W)}

\* s.loc[idx_max_value:], then .iloc[1:] when more than one point remains
data_after_max(col, W) ==
    LET d == {j \in W : j >= idxmax(col, W)}
    IN  IF Cardinality(d) > 1 THEN d \ {SetMin(d)} ELSE d

\* idx_closest_to_target with the latest of equally close points
idx_closest_to_target_latest(col, D, twice_target) ==
    LET dist(i) == AbsDiff(2 * col[i], twice_target)
    IN  CHOOSE i \in notna(col, D) :
            \A j \in notna(col, D) :
                dist(i) < dist(j) \/ (dist(i) = dist(j) /\ i >= j)

\* (data - target).abs().idxmin() with target = twice_target / 2
idx_closest_to_target(col, D, twice_target) ==
    LET dist(i) == AbsDiff(2 * col[i], twice_target)
    IN  CHOOSE i \in notna(col, D) :
            \A j \in notna(col, D) :
                dist(i) < dist(j) \/ (dist(i) = dist(j) /\ i <= j)

\* values_after_max that needs two points after the maximum
values_after_max_needs_two_points(col, W) ==
    IF idxmax(col, W) < Cardinality(W) - 2
    THEN {j \in W : j >= idxmax(col, W) + 1}
    ELSE {}

\* the killed_status test of the summary calculation
values_after_max(col, W) ==
    IF idxmax(col, W) < Cardinality(W) - 1
    THEN {j \in W : j >= idxmax(col, W) + 1}
    ELSE {}

killed_status(col, W) ==
    IF notna(col, W) # {}
       /\ \E j \in notna(col, values_after_max(col, W)) :
              2 * col[j] < series_max(col, W)
    THEN "Yes" ELSE "No"

----------------------------------------------------------------------------
(* The grouping: a sequence of treatment groups, each a sequence of        *)
(* samples [name, input_ids].  {} is << >>, {'Treatments': {}} is          *)
(* << << >> >>.                                                            *)

RECURSIVE AllSamples(_)
\* the samples in the order of "for treatment_group ...: for assay_name_key ..."
AllSamples(etd) ==
    IF etd = << >> THEN << >> ELSE Head(etd) \o AllSamples(Tail(etd))

\* [name for name in potential_column_names if name in main_df.columns]
valid_well_columns(sample, df) ==
    SelectSeq(sample.input_ids, LAMBDA id : id \in df.columns)

SeqToSet(s) == {s[i] : i \in 1..Len(s)}

----------------------------------------------------------------------------
(* Negative control check of determine_assay_status *)

\* the wells kept in well_data_dict
well_data_dict(wells, df, W) ==
    {w \in wells : notna(df.cell[w], AllRows(df)) # {} /\ notna(df.cell[w], W) # {}}

\* wells_df.mean(axis=1) at row i, as the pair <<sum, count>>
avg_ci_per_timepoint(kept, df, i) ==
    LET have == {w \in kept : df.cell[w][i] # NaN}
        RECURSIVE Sum(_)
        Sum(S) == IF S = {} THEN 0
                  ELSE LET w == CHOOSE x \in S : TRUE
                       IN  df.cell[w][i] + Sum(S \ {w})
    IN  << Sum(have), Cardinality(have) >>

\* negative_control_check that also passes when the last average equals half of
\* the maximum
negative_control_check_equal_passes(wells, df, eff) ==
    LET W == IF eff # None THEN after_effector_mask(df.time, AllRows(df), eff)
             ELSE AllRows(df)
        kept == well_data_dict(wells, df, W)
        avg(i) == avg_ci_per_timepoint(kept, df, i)
        rows == {i \in W : avg(i)[2] > 0}
        imax == CHOOSE i \in rows :
                    \A j \in rows : avg(i)[1] * avg(j)[2] >= avg(j)[1] * avg(i)[2]
        last == SetMax(W)
    IN  IF kept = {} THEN "Fail"
        ELSE IF /\ avg(last)[2] > 0
                /\ 2 * avg(last)[1] * avg(imax)[2] >= avg(imax)[1] * avg(last)[2]
             THEN "Pass"
             ELSE "Fail"

\* avg_last_ci > avg_max_ci / 2 over the averaged series
negative_control_check(wells, df, eff) ==
    LET W == IF eff # None THEN after_effector_mask(df.time, AllRows(df), eff)
             ELSE AllRows(df)
        kept == well_data_dict(wells, df, W)
        avg(i) == avg_ci_per_timepoint(kept, df, i)
        rows == {i \in W : avg(i)[2] > 0}
        imax == CHOOSE i \in rows :
                    \A j \in rows : avg(i)[1] * avg(j)[2] >= avg(j)[1] * avg(i)[2]
        last == SetMax(W)
    IN  IF kept = {} THEN "Fail"
        ELSE IF /\ avg(last)[2] > 0
                /\ 2 * avg(last)[1] * avg(imax)[2] > avg(imax)[1] * avg(last)[2]
             THEN "Pass"
             ELSE "Fail"

RECURSIVE med_scan_no_control_passes(_, _, _)
\* med_scan that passes when no medium sample decides
med_scan_no_control_passes(samples, df, eff) ==
    IF samples = << >> THEN "Pass"
    ELSE LET s == Head(samples)
             valid == valid_well_columns(s, df)
         IN  IF is_med_only_sample(s.name) /\ valid # << >>
             THEN negative_control_check(SeqToSet(valid), df, eff)
             ELSE med_scan_no_control_passes(Tail(samples), df, eff)

RECURSIVE med_scan(_, _, _)
\* the loop over the samples: the first medium sample with data columns decides
med_scan(samples, df, eff) ==
    IF samples = << >> THEN "Fail"
    ELSE LET s == Head(samples)
             valid == valid_well_columns(s, df)
         IN  IF is_med_only_sample(s.name) /\ valid # << >>
             THEN negative_control_check(SeqToSet(valid), df, eff)
             ELSE med_scan(Tail(samples), df, eff)

\* determine_assay_status that treats a missing time column as missing data
determine_assay_status_pending_without_time(etd, df, eff) ==
    IF etd = << >> \/ ~df.present \/ df.nrows = 0 THEN "Pending"
    ELSE IF "Time (Hour)" \notin df.columns THEN "Pending"
    ELSE med_scan(AllSamples(etd), df, eff)

determine_assay_status(etd, df, eff) ==
    IF etd = << >> \/ ~df.present \/ df.nrows = 0 THEN "Pending"
    ELSE IF "Time (Hour)" \notin df.columns THEN "Fail"
    ELSE med_scan(AllSamples(etd), df, eff)

----------------------------------------------------------------------------
(* Half-killing time calculation of one well *)

\* the rise threshold of the assay type, in hundredths
threshold_value(assay_type) == IF assay_type = "BCMA" THEN 40 ELSE 80

\* time_max_report, max_val_report before any well has set them
ReportUnset == [set |-> FALSE, max_val |-> None, time_max |-> None]

NoRow ==
    [sample |-> << >>, well |-> "", killed |-> "No", max_val |-> None,
     time_max |-> None, closest_hour |-> None, half_killing |-> None]

\* summary_row that reports the closest point whatever the killed status
summary_row_keeps_times(sample, well, killed, rep, closest_hour, half_killing) ==
    [sample |-> sample, well |-> well, killed |-> killed,
     max_val |-> rep.max_val, time_max |-> rep.time_max,
     closest_hour |-> closest_hour,
     half_killing |-> half_killing]

\* target_data_row / summary_row / print report row of one well
summary_row(sample, well, killed, rep, closest_hour, half_killing) ==
    [sample |-> sample, well |-> well, killed |-> killed,
     max_val |-> rep.max_val, time_max |-> rep.time_max,
     closest_hour |-> IF killed = "Yes" THEN closest_hour ELSE None,
     half_killing |-> IF killed = "Yes" THEN half_killing ELSE None]

\* one iteration of "for well_col_name_calc in valid_well_columns_for_assay":
\* kind "row" appends a row, "continue" skips the well, "NameError" leaves the
\* sample's loop through the handler of the enclosing try
half_killing_calc(df, eff, assay_type, sample, well, rep) ==
    LET col == df.cell[well]
        time == df.time
        W == well_data_filtered(df, eff)
        out(kind, row, r, viol) == [kind |-> kind, row |-> row, rep |-> r, viol |-> viol]
    IN
    IF assay_type \notin {"BCMA", "CD19"}
    THEN \* the fallback to the value 1 and the target 0.5
         LET at1 == {i \in W : col[i] = 100}
             idx_at_1 == SetMin(at1)
             after1 == {j \in W : j >= idx_at_1} \ {idx_at_1}
             ic == idx_closest_to_target(col, after1, 100)
             rep2 == [set |-> TRUE, max_val |-> 100, time_max |-> time[idx_at_1]]
         IN  IF at1 = {} THEN out("continue", NoRow, rep, FALSE)
             ELSE IF notna(col, after1) = {} THEN out("continue", NoRow, rep, FALSE)
             ELSE out("row",
                      summary_row(sample, well, "No", rep2, time[ic],
                                  time[ic] - time[idx_at_1]),
                      rep2, FALSE)
    ELSE
    IF notna(col, W) = {}
    THEN \* the calculation is skipped and the row is built from what the
         \* previous wells left in the report variables
         IF rep.set
         THEN out("row", summary_row(sample, well, "No", rep, None, None), rep, FALSE)
         ELSE out("NameError", NoRow, rep, FALSE)
    ELSE LET max_value == series_max(col, W)
             idx_max_value == idxmax(col, W)
             viol == max_value < threshold_value(assay_type)
             D == data_after_max(col, W)
             ic == idx_closest_to_target(col, D, max_value)
             rep2 == [set |-> TRUE, max_val |-> max_value,
                      time_max |-> time[idx_max_value]]
         IN  IF notna(col, D) = {} THEN out("continue", NoRow, rep, viol)
             ELSE out("row",
                      summary_row(sample, well, killed_status(col, W), rep2,
                                  time[ic], time[ic] - time[idx_max_value]),
                      rep2, viol)

RECURSIVE well_loop(_, _, _, _, _, _)
well_loop(df, eff, assay_type, sample, wells, acc) ==
    IF wells = << >> THEN acc
    ELSE LET o == half_killing_calc(df, eff, assay_type, sample, Head(wells), acc.rep)
             acc2 == [rows |-> IF o.kind = "row" THEN Append(acc.rows, o.row)
                               ELSE acc.rows,
                      viols |-> IF o.viol
                                THEN Append(acc.viols,
                                            [well |-> Head(wells), sample |-> sample])
                                ELSE acc.viols,
                      rep |-> o.rep]
         IN  IF o.kind = "NameError" THEN acc2
             ELSE well_loop(df, eff, assay_type, sample, Tail(wells), acc2)

RECURSIVE sample_loop(_, _, _, _, _)
\* the loop over the samples of the detailed analysis
sample_loop(df, eff, assay_type, samples, acc) ==
    IF samples = << >> THEN acc
    ELSE LET s == Head(samples)
             valid == valid_well_columns(s, df)
             acc2 == IF valid = << >> \/ is_med_only_sample(s.name) THEN acc
                     ELSE well_loop(df, eff, assay_type, s.name, valid, acc)
         IN  sample_loop(df, eff, assay_type, Tail(samples), acc2)

\* the detailed analysis: rows and threshold violations of a run
detailed_analysis(etd, df, eff, assay_type) ==
    LET acc0 == [rows |-> << >>, viols |-> << >>, rep |-> ReportUnset]
    IN  IF {"Time (Hour)", "Time (hh:mm:ss)"} \subseteq df.columns
        THEN sample_loop(df, eff, assay_type, AllSamples(etd), acc0)
        ELSE acc0

----------------------------------------------------------------------------
(* The criteria 1 and 2 of the checklist, computed again after the final status *)

\* the checklist before it is computed
ChecklistUnset == [med_sample_found |-> FALSE, local_max_criteria_pass |-> TRUE]

\* one medium sample with data columns leaves local_max_criteria_pass as it is
checklist_control_check(wells, df, eff) ==
    LET W == IF eff # None THEN after_effector_mask(df.time, AllRows(df), eff)
             ELSE AllRows(df)
        kept == well_data_dict(wells, df, W)
        avg(i) == avg_ci_per_timepoint(kept, df, i)
        rows == {i \in W : avg(i)[2] > 0}
        imax == CHOOSE i \in rows :
                    \A j \in rows : avg(i)[1] * avg(j)[2] >= avg(j)[1] * avg(i)[2]
        last == SetMax(W)
    IN  IF kept = {} THEN FALSE
        ELSE ~(/\ avg(last)[2] > 0
               /\ 2 * avg(last)[1] * avg(imax)[2] <= avg(imax)[1] * avg(last)[2])

RECURSIVE checklist_scan(_, _, _, _)
\* the loop over all the samples of the grouping
checklist_scan(samples, df, eff, acc) ==
    IF samples = << >> THEN acc
    ELSE LET s == Head(samples)
             valid == valid_well_columns(s, df)
             acc2 == IF ~is_med_only_sample(s.name) THEN acc
                     ELSE [med_sample_found |-> TRUE,
                           local_max_criteria_pass |->
                               /\ acc.local_max_criteria_pass
                               /\ valid # << >>
                                     => checklist_control_check(SeqToSet(valid), df, eff)]
         IN  checklist_scan(Tail(samples), df, eff, acc2)

\* med_sample_found and local_max_criteria_pass as the checklist shows them
checklist_criteria(etd, df, eff) ==
    LET scanned ==
            IF etd = << >> \/ ~df.present THEN ChecklistUnset
            ELSE IF "Time (Hour)" \notin df.columns
                 THEN [ChecklistUnset EXCEPT !.local_max_criteria_pass = FALSE]
            ELSE checklist_scan(AllSamples(etd), df, eff, ChecklistUnset)
    IN  [scanned EXCEPT !.local_max_criteria_pass = @ /\ scanned.med_sample_found]

----------------------------------------------------------------------------
(* The first pass of a sample: the rows to highlight *)

\* the entry of half_killing_indices of one well, as a set of at most one index
half_killing_index(col, W) ==
    LET D == data_after_max(col, W)
    IN  IF /\ notna(col, W) # {}
           /\ \E j \in notna(col, D) : 2 * col[j] < series_max(col, W)
        THEN {idx_closest_to_target(col, D, series_max(col, W))}
        ELSE {}

\* half_killing_indices of one sample
half_killing_indices(df, eff, assay_type, sample) ==
    IF is_med_only_sample(sample.name) \/ assay_type \notin {"BCMA", "CD19"}
    THEN {}
    ELSE UNION {{[sample |-> sample.name, well |-> w, index |-> i] :
                    i \in half_killing_index(df.cell[w], well_data_filtered(df, eff))} :
                w \in SeqToSet(valid_well_columns(sample, df))}

\* highlighting_data of the run, for the samples that reach the first pass
highlighting(etd, df, eff, assay_type) ==
    IF {"Time (Hour)", "Time (hh:mm:ss)"} \subseteq df.columns
    THEN UNION {half_killing_indices(df, eff, assay_type, s) :
                   s \in SeqToSet(AllSamples(etd))}
    ELSE {}

----------------------------------------------------------------------------
(* Statistics by sample *)

\* the rows of closest_df of one sample (groupby "Sample Name")
RowsOf(rows, name) == SelectSeq(rows, LAMBDA r : r.sample = name)

\* format_kill_summary: "All Yes", "All No" or "<yes> Yes, <no> No"
format_kill_summary(series) ==
    LET total_count == Len(series)
        yes_count == Len(SelectSeq(series, LAMBDA k : k = "Yes"))
        no_count == Len(SelectSeq(series, LAMBDA k : k = "No"))
    IN  IF total_count = 0 THEN [text |-> "N/A", yes |-> 0, no |-> 0]
        ELSE IF yes_count = total_count
             THEN [text |-> "All Yes", yes |-> yes_count, no |-> no_count]
        ELSE IF no_count = total_count
             THEN [text |-> "All No", yes |-> yes_count, no |-> no_count]
        ELSE IF yes_count > 0 \/ no_count > 0
             THEN [text |-> "Yes, No", yes |-> yes_count, no |-> no_count]
        ELSE [text |-> "No kill data", yes |-> 0, no |-> 0]

RECURSIVE SeqSum(_)
SeqSum(s) == IF s = << >> THEN 0 ELSE Head(s) + SeqSum(Tail(s))

\* sum over the pairs i < j of (x[i] - x[j])^2: n * (n - 1) * variance
PairSquares(x) ==
    LET pairs == {p \in (1..Len(x)) \X (1..Len(x)) : p[1] < p[2]}
        RECURSIVE Sum(_)
        Sum(S) == IF S = {} THEN 0
                  ELSE LET p == CHOOSE q \in S : TRUE
                       IN  (x[p[1]] - x[p[2]]) * (x[p[1]] - x[p[2]]) + Sum(S \ {p})
    IN  Sum(pairs)

RECURSIVE FracGE(_, _, _)
\* n / d >= 0.digits, by long division (0 <= n, 0 < d)
FracGE(n, d, digits) ==
    IF n >= d \/ digits = << >> THEN TRUE
    ELSE LET q == (n * 10) \div d
             r == (n * 10) % d
         IN  IF q > Head(digits) THEN TRUE
             ELSE IF q < Head(digits) THEN FALSE
             ELSE FracGE(r, d, Tail(digits))

\* half_killing_values that counts an absent half-killing time as 0
half_killing_values_none_as_zero(rows) ==
    [i \in 1..Len(rows) |->
        IF rows[i].half_killing = None THEN 0 ELSE rows[i].half_killing]

\* the half-killing times of a sample that are numbers (mean and std skip NaN)
half_killing_values(rows) ==
    LET num == SelectSeq(rows, LAMBDA r : r.half_killing # None)
    IN  [i \in 1..Len(num) |-> num[i].half_killing]

\* the standard deviation of x (ddof = 1), as the kind of value it is: NaN with
\* fewer than 2 values
std_kind(x) ==
    IF Len(x) < 2 THEN "NaN" ELSE IF PairSquares(x) = 0 THEN "zero" ELSE "positive"

\* the mean of x as the kind of value it is
mean_kind(x) ==
    IF Len(x) = 0 THEN "NaN" ELSE IF SeqSum(x) = 0 THEN "zero" ELSE "positive"

\* percent_cv without the replacement of the %CV where the std is 0 or NaN
percent_cv_not_normalised(x) ==
    CASE std_kind(x) = "NaN" \/ mean_kind(x) = "NaN" -> "NaN"
      [] mean_kind(x) = "zero" /\ std_kind(x) = "zero" -> "NaN"
      [] mean_kind(x) = "zero" -> "inf"
      [] std_kind(x) = "zero" -> "zero"
      [] OTHER -> "positive"

\* "%CV Half-killing time (Hour)": (std / mean) * 100, then 0.0 where
\* std.fillna(0) == 0; as the kind of value it is
percent_cv(x) ==
    LET raw == CASE std_kind(x) = "NaN" \/ mean_kind(x) = "NaN" -> "NaN"
                 [] mean_kind(x) = "zero" /\ std_kind(x) = "zero" -> "NaN"
                 [] mean_kind(x) = "zero" -> "inf"
                 [] std_kind(x) = "zero" -> "zero"
                 [] OTHER -> "positive"
    IN  IF std_kind(x) \in {"NaN", "zero"} THEN "zero" ELSE raw

\* "%CV Pass/Fail" = "Fail": the %CV formatted with 2 decimals is > 30, that is
\* %CV >= 30.005, (std / mean)^2 >= 0.0900300025; %CV is set to 0 when std is 0
\* or NaN
cv_fail(x) ==
    /\ Len(x) >= 2
    /\ PairSquares(x) > 0
    /\ FracGE(PairSquares(x) * Len(x), (Len(x) - 1) * SeqSum(x) * SeqSum(x),
              <<0, 9, 0, 0, 3, 0, 0, 0, 2, 5>>)

\* avg_time_numeric <= 12: the mean formatted with 2 decimals is <= 12.00, that
\* is mean < 12.005 h = 3001.25 ticks
avg_time_ok(x) == Len(x) >= 1 /\ 4 * SeqSum(x) < 12005 * Len(x)

\* sample_recovery_status that also flags a well whose maximum is below the rise
\* threshold of the assay type
sample_recovery_status_below_threshold(sample, df, eff, assay_type) ==
    \E i \in 1..Len(valid_well_columns(sample, df)) :
        LET col == df.cell[valid_well_columns(sample, df)[i]]
            W == well_data_filtered(df, eff)
            D == data_after_max(col, W)
            last_value == col[SetMax(D)]
        IN  /\ notna(col, AllRows(df)) # {}
            /\ assay_type \in {"BCMA", "CD19"}
            /\ notna(col, W) # {}
            /\ \/ series_max(col, W) < threshold_value(assay_type)
               \/ /\ \E j \in notna(col, D) : 2 * col[j] < series_max(col, W)
                  /\ last_value # NaN
                  /\ 2 * last_value > series_max(col, W)

\* has_recovery of one sample of the grouping
sample_recovery_status(sample, df, eff, assay_type) ==
    \E i \in 1..Len(valid_well_columns(sample, df)) :
        LET col == df.cell[valid_well_columns(sample, df)[i]]
            W == well_data_filtered(df, eff)
            D == data_after_max(col, W)
            last_value == col[SetMax(D)]
        IN  /\ notna(col, AllRows(df)) # {}
            /\ assay_type \in {"BCMA", "CD19"}
            /\ notna(col, W) # {}
            /\ \E j \in notna(col, D) : 2 * col[j] < series_max(col, W)
            /\ last_value # NaN
            /\ 2 * last_value > series_max(col, W)

\* the samples of the grouping that the recovery loop visits
recovery_samples(etd) ==
    SelectSeq(AllSamples(etd), LAMBDA s : ~is_med_only_sample(s.name))

\* actual_replicate_counts that counts the result rows of the sample
actual_replicate_counts_of_rows(listed, mine) == Len(mine)

\* "Number of Replicates": len(input_ids) of the sample of the grouping, or the
\* size of its group of closest_df when the grouping does not list it
actual_replicate_counts(listed, mine) ==
    IF listed # << >> THEN Len(listed[Len(listed)].input_ids) ELSE Len(mine)

\* one row of stats_df
stats_row(name, rows, etd, df, eff, assay_type) ==
    LET mine == RowsOf(rows, name)
        x == half_killing_values(mine)
        listed == SelectSeq(recovery_samples(etd), LAMBDA s : s.name = name)
        summary == format_kill_summary([i \in 1..Len(mine) |-> mine[i].killed])
        recovery == \E i \in 1..Len(listed) :
                        sample_recovery_status(listed[i], df, eff, assay_type)
    IN  [sample |-> name,
         replicates |-> actual_replicate_counts(listed, mine),
         hk_count |-> Len(x),
         hk_sum |-> SeqSum(x),
         hk_pair_squares |-> PairSquares(x),
         std |-> std_kind(x),
         cv |-> percent_cv(x),
         cv_pass_fail |-> IF cv_fail(x) THEN "Fail" ELSE "Pass",
         kill_summary |-> summary,
         recovery |-> recovery,
         valid |-> IF /\ summary.text = "All Yes"
                      /\ ~cv_fail(x)
                      /\ avg_time_ok(x)
                      /\ ~recovery
                   THEN "Valid" ELSE "Invalid"]

\* stats_df: one row per sample name of closest_df; the empty set is None
statistics(rows, etd, df, eff, assay_type) ==
    {stats_row(rows[i].sample, rows, etd, df, eff, assay_type) : i \in 1..Len(rows)}

----------------------------------------------------------------------------
(* The Layout sheet and the grouping built from it *)

\* "Y (" + layout_df['Well'] + ")"
InputId(well) ==
    CASE well = "A1" -> "Y (A1)"
      [] well = "A2" -> "Y (A2)"
      [] well = "B9" -> "Y (B9)"

\* a Treatment cell that names no sample
BlankTreatment(treatment) ==
    \/ treatment = << >>
    \/ StrLower(treatment) \in {<<"n", "a", "n">>, <<"n", "o", "n", "e">>}

RECURSIVE build_samples(_, _)
\* extracted_info['Treatments'] after the rows of the Layout sheet
build_samples(rows, samples) ==
    IF rows = << >> THEN samples
    ELSE LET row == Head(rows)
             at == {i \in 1..Len(samples) : samples[i].name = row.treatment}
             i == CHOOSE k \in at : TRUE
             id == InputId(row.well)
         IN  IF BlankTreatment(row.treatment) THEN build_samples(Tail(rows), samples)
             ELSE IF at = {}
             THEN build_samples(Tail(rows),
                      Append(samples, [name |-> row.treatment, input_ids |-> <<id>>]))
             ELSE IF id \in SeqToSet(samples[i].input_ids)
             THEN build_samples(Tail(rows), samples)
             ELSE build_samples(Tail(rows),
                      [samples EXCEPT ![i].input_ids = Append(@, id)])

\* st.session_state.extracted_treatment_data after the Layout sheet is read
extracted_info(layout) ==
    IF ~layout.sheet \/ layout.rows = << >> THEN << >>
    ELSE << build_samples(layout.rows, << >>) >>

----------------------------------------------------------------------------
(* The uploaded workbooks *)

MED == <<"M", "e", "d">>

T_ONLY == <<"T", " ", "o", "n", "l", "y">>

DONLY == <<"D", "o", "n", "l", "y">>

SSS1 == <<"S", "S", "S", "1">>

SSS2 == <<"S", "S", "S", "2">>

T1 == <<"T", "1">>

\* the entry "None" of the positive control selectbox
NONE_OPTION == <<"N", "o", "n", "e">>

FileNames == {<<"C", "D", "1", "9">>, <<"b", "c", "m", "a">>, <<"x">>}

Rows == 0 .. (NumRows - 1)

Levels == {50 * k : k \in 0..MaxLevel}

\* the times of the rows: hourly, the last row 13 hours after the one before
TimeAxis == [i \in Rows |-> IF i < NumRows - 1 THEN Hours(i) ELSE Hours(i + 12)]

\* every series with absent cells
FullSeries == [Rows -> Levels \cup {NaN}]

\* the series of zeros and top levels
TwoLevelSeries == [Rows -> {0, 50 * MaxLevel}]

\* a reference time 0.2 h after each row, or none
EffectorTimes == {None} \cup {TimeAxis[i] + 50 : i \in Rows}

AuditColumns == {"ID", "Reason", "Action", "Experiment Time"}

\* a workbook without audit trail sheet
NoAuditTrail == [sheet |-> "", columns |-> {}, rows |-> << >>]

\* an audit trail whose only row says that the effector was added at h:12:00
TrailAt(h) ==
    [sheet |-> "Audit Trail", columns |-> AuditColumns,
     rows |-> << [ID |-> 1, Reason |-> "Added Effector", Action |-> "Pause",
                  time |-> [parts |-> <<h, 12, 0>>, numeric |-> TRUE]] >>]

\* the audit trails that resolve no time or a time 0.2 h after a row
EffectorTrails == {NoAuditTrail} \cup {TrailAt(TimeAxis[i] \div Hours(1)) : i \in Rows}

\* the "Experiment Time" cells of the row k: k:12:00, k:12 and one that int()
\* does not read
AuditTimes(k) ==
    {[parts |-> <<k, 12, 0>>, numeric |-> TRUE],
     [parts |-> <<k, 12>>, numeric |-> TRUE],
     [parts |-> <<k, 12, 0>>, numeric |-> FALSE]}

\* the audit trails of up to MaxAuditRows rows, the IDs ascending or descending
RowTrails ==
    {[sheet |-> "Audit Trail", columns |-> AuditColumns,
      rows |-> [k \in 1..n |->
                   [ID |-> IF ascending THEN k ELSE n + 1 - k,
                    Reason |-> reason[k], Action |-> action[k], time |-> time[k]]]] :
        <<n, ascending, reason, action, time>> \in
            UNION {{<<m, b, r, a, t>> :
                        b \in BOOLEAN,
                        r \in [1..m -> {"Added Effector", "Added media"}],
                        a \in [1..m -> {"Continue Experiment", "Pause"}],
                        t \in {f \in [1..m -> UNION {AuditTimes(k) : k \in 1..m}] :
                                  \A k \in 1..m : f[k] \in AuditTimes(k)}} :
                   m \in 0..MaxAuditRows}}

\* the same with the other sheet name or without one of the columns, for the
\* trails of at most two rows
AuditTrails ==
    LET short == {t \in RowTrails : Len(t.rows) <= 2}
    IN  RowTrails
          \cup {NoAuditTrail}
          \cup {[t EXCEPT !.sheet = "Audit_Trail"] : t \in short}
          \cup {[t EXCEPT !.columns = @ \ {c}] : t \in short, c \in AuditColumns}

Table(sheet, present, columns, nrows, time, cell) ==
    [sheet |-> sheet, present |-> present, columns |-> columns, nrows |-> nrows,
     time |-> time, cell |-> cell]

TimeColumns == {"Time (Hour)", "Time (hh:mm:ss)"}

FullTable(a1, a2) ==
    Table(TRUE, TRUE, TimeColumns \cup {"Y (A1)", "Y (A2)"}, NumRows, TimeAxis,
          [w \in {"Y (A1)", "Y (A2)"} |-> IF w = "Y (A1)" THEN a1 ELSE a2])

Layout(tB9, tA1, tA2) ==
    [sheet |-> TRUE,
     rows |-> << [well |-> "B9", treatment |-> tB9],
                 [well |-> "A1", treatment |-> tA1],
                 [well |-> "A2", treatment |-> tA2] >>]

NoLayout == [sheet |-> FALSE, rows |-> << >>]

\* the Layout sheets of three rows that may name a well more than once
RepeatingLayouts ==
    {[sheet |-> TRUE,
      rows |-> [k \in 1..3 |-> [well |-> well[k], treatment |-> treatment[k]]]] :
        well \in [1..3 -> {"A1", "A2", "B9"}], treatment \in [1..3 -> {T1, SSS1}]}

StatusNames == {MED, SSS1, T1, << >>}

StatusLayouts ==
    {Layout(b, x, y) : b \in StatusNames, x \in StatusNames, y \in StatusNames}
        \cup {NoLayout}

\* a falling and a flat series for the workbooks whose table is incomplete
FallingSeries == [i \in Rows |-> IF i = 0 THEN 50 * MaxLevel ELSE 0]

FlatSeries == [i \in Rows |-> 50 * MaxLevel]

\* tables with a missing sheet, header row, rows or time column
BrokenTables ==
    LET t == FullTable(FallingSeries, FlatSeries)
    IN  { [t EXCEPT !.sheet = FALSE, !.present = FALSE],
          [t EXCEPT !.present = FALSE],
          [t EXCEPT !.nrows = 0],
          [t EXCEPT !.columns = @ \ {"Time (Hour)"}],
          [t EXCEPT !.columns = @ \ {"Time (hh:mm:ss)"}] }

\* the series of the example of the crossing search, at the hours 0..7
ExampleTable ==
    Table(TRUE, TRUE, TimeColumns \cup {"Y (A1)"}, 8, [i \in 0..7 |-> Hours(i)],
          [w \in {"Y (A1)"} |->
              [i \in 0..7 |-> <<10, 30, 90, 95, 90, 50, 30, 60>>[i + 1]]])

\* the second replicate of a sample: no value at all, falling or flat
ReplicateSeries == {[i \in Rows |-> NaN], FallingSeries, FlatSeries}

\* times off the two-decimal grid: 0 h, then 12.004 h, 13.008 h, ...
RoundingTimeAxis == [i \in Rows |-> IF i = 0 THEN 0 ELSE Hours(11 + i) + i]

\* the file uploader holds no file
NoFile == << >>

\* the names of the files uploaded after the first one
LaterFileNames == {<<"c", "d", "1", "9", "2">>, <<"b", "c", "m", "a", "2">>}

\* the workbooks uploaded after the first one
Uploads ==
    {[file |-> f, audit_trail |-> NoAuditTrail, table |-> t,
      layout |-> Layout(<< >>, SSS1, MED)] :
        f \in LaterFileNames,
        t \in {FullTable(FallingSeries, FlatSeries), FullTable(FlatSeries, FlatSeries),
               [FullTable(FallingSeries, FlatSeries) EXCEPT !.sheet = FALSE,
                                                            !.present = FALSE]}}

----------------------------------------------------------------------------
(* The results kept in the session *)

\* what a run stores of current_file_results
current_file_results(file_name, status, closest_df, stats) ==
    [file_name |-> file_name, assay_status |-> status,
     closest_df |-> closest_df, stats_df |-> stats]

\* st.session_state.all_files_results[uploaded_file.name] = current_file_results
store_results(results, current) ==
    {e \in results : e.file_name # current.file_name} \cup {current}

\* the results of earlier runs stay in the session
clear_previous_results_keeps(results) == results

\* st.session_state.all_files_results = {}
clear_previous_results(results) == {}

----------------------------------------------------------------------------
(* The script run *)

RunStart ==
    /\ pc = "effector"
    /\ all_files_results = {}
    /\ effector_time_hours = None
    /\ effector_warning = "None"
    /\ positive_control = << >>
    /\ assay_status = "Pending"
    /\ das_result = "not called"
    /\ closest_to_half_target_data = << >>
    /\ threshold_violations = << >>
    /\ stats_df = {}
    /\ highlighting_data = {}
    /\ checklist = ChecklistUnset

\* one well with every series, every reference time and every assay type
InitWell ==
    /\ uploaded_file \in FileNames
    /\ audit_trail \in EffectorTrails
    /\ \E a1 \in FullSeries, t \in {T1, SSS1, DONLY, T_ONLY} :
          /\ main_data_df = FullTable(a1, FlatSeries)
          /\ extracted_treatment_data = extracted_info(Layout(<< >>, t, << >>))

\* two wells under every layout of negative control, positive control and sample
InitStatus ==
    /\ uploaded_file \in {<<"C", "D", "1", "9">>, <<"x">>}
    /\ audit_trail \in {NoAuditTrail, TrailAt(1)}
    /\ \E a1 \in TwoLevelSeries, a2 \in TwoLevelSeries :
          main_data_df = FullTable(a1, a2)
    /\ \E l \in StatusLayouts : extracted_treatment_data = extracted_info(l)

\* workbooks with missing input
InitBroken ==
    /\ uploaded_file = <<"C", "D", "1", "9">>
    /\ audit_trail = NoAuditTrail
    /\ main_data_df \in BrokenTables
    /\ \E l \in StatusLayouts : extracted_treatment_data = extracted_info(l)

InitExample ==
    /\ uploaded_file \in FileNames
    /\ audit_trail = NoAuditTrail
    /\ main_data_df = ExampleTable
    /\ extracted_treatment_data = extracted_info(Layout(<< >>, SSS1, << >>))

\* one or two replicates of a sample whose times are off the two-decimal grid
InitRounding ==
    /\ uploaded_file = <<"C", "D", "1", "9">>
    /\ audit_trail = NoAuditTrail
    /\ \E a1 \in TwoLevelSeries, a2 \in TwoLevelSeries :
          main_data_df = [FullTable(a1, a2) EXCEPT !.time = RoundingTimeAxis]
    /\ \E t \in {SSS1, << >>} :
          extracted_treatment_data = extracted_info(Layout(<< >>, SSS1, t))

\* two replicates of one sample, two samples named as positive controls, or two
\* negative control groups
InitReplicates ==
    /\ uploaded_file \in {<<"C", "D", "1", "9">>, <<"b", "c", "m", "a">>}
    /\ audit_trail \in {NoAuditTrail, TrailAt(1)}
    /\ \E a1 \in FullSeries, a2 \in ReplicateSeries :
          main_data_df = FullTable(a1, a2)
    /\ \E l \in {Layout(<< >>, T1, T1), Layout(<< >>, T_ONLY, T_ONLY),
                 Layout(<< >>, SSS1, SSS2), Layout(<< >>, SSS2, SSS1),
                 Layout(<< >>, MED, T_ONLY)} :
          extracted_treatment_data = extracted_info(l)

\* one workbook with every audit trail
InitAudit ==
    /\ uploaded_file = <<"C", "D", "1", "9">>
    /\ audit_trail \in AuditTrails
    /\ main_data_df = FullTable(FallingSeries, FlatSeries)
    /\ extracted_treatment_data = extracted_info(Layout(<< >>, SSS1, MED))

\* Layout sheets that name a well more than once
InitLayout ==
    /\ uploaded_file = <<"C", "D", "1", "9">>
    /\ audit_trail = NoAuditTrail
    /\ main_data_df = FullTable(FallingSeries, FlatSeries)
    /\ \E l \in RepeatingLayouts : extracted_treatment_data = extracted_info(l)

Init ==
    /\ RunStart
    /\ \/ InitWell
       \/ InitStatus
       \/ InitBroken
       \/ InitExample
       \/ InitRounding
       \/ InitReplicates
       \/ InitAudit
       \/ InitLayout

\* the workbook and what the run resolved from its audit trail
inputs == << uploaded_file, main_data_df, extracted_treatment_data, audit_trail,
             effector_time_hours, effector_warning >>

\* all_sample_names
all_sample_names == AllSamples(extracted_treatment_data)

\* potential_pcs that is empty unless exactly one name contains "SSS"
potential_pcs_exactly_one ==
    LET marked == SelectSeq(all_sample_names,
                            LAMBDA s : Contains(s.name, <<"S", "S", "S">>))
    IN  IF Len(marked) = 1 THEN marked ELSE << >>

\* [name for name in all_sample_names if "SSS" in name]
potential_pcs ==
    SelectSeq(all_sample_names, LAMBDA s : Contains(s.name, <<"S", "S", "S">>))

\* the guard of the status and of the detailed analysis
HaveData ==
    /\ main_data_df.present
    /\ main_data_df.nrows > 0
    /\ extracted_treatment_data # << >>

\* the effector addition time and its warning, resolved before anything else
EffectorAdditionTime ==
    /\ pc = "effector"
    /\ effector_time_hours' = get_effector_addition_time(audit_trail).time
    /\ effector_warning' = get_effector_addition_time(audit_trail).warning
    /\ pc' = "select"
    /\ UNCHANGED << uploaded_file, main_data_df, extracted_treatment_data,
                    audit_trail, positive_control, assay_status, das_result,
                    closest_to_half_target_data, threshold_violations, stats_df,
                    highlighting_data, checklist, all_files_results >>

\* the sheet "Data Analysis - Curve" is missing: an error is shown and the run ends
NoSheet ==
    /\ pc = "select"
    /\ ~main_data_df.sheet
    /\ pc' = "done"
    /\ UNCHANGED << inputs, all_files_results, checklist, highlighting_data, positive_control, assay_status, das_result,
                    closest_to_half_target_data, threshold_violations, stats_df >>

\* Positive Control Selection
SelectPositiveControl ==
    /\ pc = "select"
    /\ main_data_df.sheet
    /\ IF potential_pcs # << >>
       THEN positive_control' = potential_pcs[1].name
       ELSE \E choice \in {NONE_OPTION} \cup {s.name : s \in SeqToSet(all_sample_names)} :
                positive_control' = choice
    /\ pc' = "status"
    /\ UNCHANGED << inputs, all_files_results, checklist, highlighting_data, assay_status, das_result,
                    closest_to_half_target_data, threshold_violations, stats_df >>

\* Determine and Display Overall Assay Status
DetermineStatus ==
    /\ pc = "status"
    /\ das_result' = IF HaveData
                     THEN determine_assay_status(extracted_treatment_data,
                                                 main_data_df, effector_time_hours)
                     ELSE "not called"
    /\ assay_status' = IF HaveData THEN das_result' ELSE "Pending"
    /\ pc' = "analysis"
    /\ UNCHANGED << inputs, all_files_results, checklist, highlighting_data, positive_control,
                    closest_to_half_target_data, threshold_violations, stats_df >>

\* Detailed Sample Data by Well and the half-killing time of every well
DetailedAnalysis ==
    /\ pc = "analysis"
    /\ LET r == detailed_analysis(extracted_treatment_data, main_data_df,
                                  effector_time_hours, assay_type_of(uploaded_file))
       IN  IF HaveData
           THEN /\ closest_to_half_target_data' = r.rows
                /\ threshold_violations' = r.viols
                /\ highlighting_data' =
                      highlighting(extracted_treatment_data, main_data_df,
                                   effector_time_hours, assay_type_of(uploaded_file))
           ELSE UNCHANGED << closest_to_half_target_data, threshold_violations,
                             highlighting_data >>
    /\ pc' = "statistics"
    /\ UNCHANGED << inputs, all_files_results, checklist, positive_control, assay_status,
                    das_result, stats_df >>

\* Half-killing Time Statistics by Sample
Statistics ==
    /\ pc = "statistics"
    /\ stats_df' = statistics(closest_to_half_target_data, extracted_treatment_data,
                              main_data_df, effector_time_hours,
                              assay_type_of(uploaded_file))
    /\ pc' = "pc_validation"
    /\ UNCHANGED << inputs, all_files_results, checklist, highlighting_data, positive_control, assay_status, das_result,
                    closest_to_half_target_data, threshold_violations >>

\* pc_row that looks the name up in lower case
pc_row_lower_case(stats, pc_name) == {r \in stats : r.sample = StrLower(pc_name)}

\* the rows of stats_df of the selected positive control
pc_row(stats, pc_name) == {r \in stats : r.sample = pc_name}

\* Positive Control Validation
PositiveControlValidation ==
    /\ pc = "pc_validation"
    /\ assay_status' =
          IF /\ positive_control # << >>
             /\ positive_control # NONE_OPTION
             /\ \E r \in pc_row(stats_df, positive_control) : r.valid = "Invalid"
          THEN "Fail" ELSE assay_status
    /\ pc' = "finalize"
    /\ UNCHANGED << inputs, all_files_results, checklist, highlighting_data, positive_control, das_result,
                    closest_to_half_target_data, threshold_violations, stats_df >>

\* final_assay_status without the branch of the option "None"
final_assay_status_without_none(status, pc_name, stats) ==
    IF pc_name # << >> /\ \E r \in pc_row(stats, pc_name) : r.valid = "Invalid"
    THEN "Fail"
    ELSE status

\* final_assay_status of Finalize Assay Status
final_assay_status(status, pc_name, stats) ==
    IF pc_name = NONE_OPTION THEN "Pending"
    ELSE IF pc_name # << >> /\ \E r \in pc_row(stats, pc_name) : r.valid = "Invalid"
         THEN "Fail"
         ELSE status

\* Finalize Assay Status and Update Placeholders
FinalizeAssayStatus ==
    /\ pc = "finalize"
    /\ assay_status' = final_assay_status(assay_status, positive_control, stats_df)
    /\ all_files_results' =
          store_results(all_files_results,
                        current_file_results(uploaded_file, assay_status',
                                             closest_to_half_target_data, stats_df))
    /\ checklist' = checklist_criteria(extracted_treatment_data, main_data_df,
                                       effector_time_hours)
    /\ pc' = "done"
    /\ UNCHANGED << inputs, positive_control, das_result, highlighting_data,
                    closest_to_half_target_data, threshold_violations, stats_df >>

\* the file uploader holds another workbook and the script runs again, up to the
\* point where the sheets are read
UploadFile ==
    /\ pc \in {"done", "idle"}
    /\ \E w \in Uploads :
          /\ uploaded_file' = w.file
          /\ audit_trail' = w.audit_trail
          /\ main_data_df' = w.table
          /\ extracted_treatment_data' = extracted_info(w.layout)
    /\ all_files_results' = clear_previous_results(all_files_results)
    /\ pc' = "effector"
    /\ effector_time_hours' = None
    /\ effector_warning' = "None"
    /\ positive_control' = << >>
    /\ assay_status' = "Pending"
    /\ das_result' = "not called"
    /\ closest_to_half_target_data' = << >>
    /\ threshold_violations' = << >>
    /\ stats_df' = {}
    /\ highlighting_data' = {}
    /\ checklist' = ChecklistUnset

\* the file uploader is emptied and the script runs without a file: the session
\* keeps its tables, the results are cleared
RemoveFile ==
    /\ pc = "done"
    /\ uploaded_file' = NoFile
    /\ audit_trail' = NoAuditTrail
    /\ all_files_results' = clear_previous_results(all_files_results)
    /\ pc' = "idle"
    /\ effector_time_hours' = None
    /\ effector_warning' = "None"
    /\ positive_control' = << >>
    /\ assay_status' = "Pending"
    /\ das_result' = "not called"
    /\ closest_to_half_target_data' = << >>
    /\ threshold_violations' = << >>
    /\ stats_df' = {}
    /\ highlighting_data' = {}
    /\ checklist' = ChecklistUnset
    /\ UNCHANGED << main_data_df, extracted_treatment_data >>

Next ==
    \/ EffectorAdditionTime
    \/ NoSheet
    \/ SelectPositiveControl
    \/ DetermineStatus
    \/ DetailedAnalysis
    \/ Statistics
    \/ PositiveControlValidation
    \/ FinalizeAssayStatus
    \/ UploadFile
    \/ RemoveFile

Spec == Init /\ [][Next]_vars

----------------------------------------------------------------------------
(* Properties *)

\* the run is past the detailed analysis: the per-well rows are final
Analysed == pc \in {"statistics", "pc_validation", "finalize", "done"}

assay_type == assay_type_of(uploaded_file)

RowIndices == 1 .. Len(closest_to_half_target_data)

\* the column and the window of the well of a row
ColumnOf(row) == main_data_df.cell[row.well]

Window == well_data_filtered(main_data_df, effector_time_hours)

\* some value strictly after the first maximum is strictly below half of it
DropsBelowHalf(col, W) ==
    /\ notna(col, W) # {}
    /\ \E j \in W : /\ j > idxmax(col, W)
                    /\ col[j] # NaN
                    /\ 2 * col[j] < series_max(col, W)

\* the point strictly after the first maximum closest to half of the maximum,
\* the earliest among equals
CrossingPoint(col, W) ==
    LET tail == {j \in W : j > idxmax(col, W) /\ col[j] # NaN}
        dist(j) == AbsDiff(2 * col[j], series_max(col, W))
    IN  CHOOSE j \in tail :
            \A k \in tail : dist(j) < dist(k) \/ (dist(j) = dist(k) /\ j <= k)

\* the negative control groups that have data columns; the first one decides
DecidingControls ==
    SelectSeq(all_sample_names,
              LAMBDA s : /\ is_med_only_sample(s.name)
                         /\ valid_well_columns(s, main_data_df) # << >>)

\* the verdict of the Negative Control Evaluator on the deciding group
ControlVerdict ==
    negative_control_check(
        SeqToSet(valid_well_columns(DecidingControls[1], main_data_df)),
        main_data_df, effector_time_hours)

\* the negative control criterion of the run fails
NegativeControlFails ==
    /\ HaveData
    /\ "Time (Hour)" \in main_data_df.columns
    /\ DecidingControls # << >>
    /\ ControlVerdict = "Fail"

NegativeControlPasses ==
    /\ HaveData
    /\ "Time (Hour)" \in main_data_df.columns
    /\ DecidingControls # << >>
    /\ ControlVerdict = "Pass"

\* a positive control is selected
Selected == positive_control # << >> /\ positive_control # NONE_OPTION

\* the statistics of the selected positive control say Invalid / Valid
SelectedInvalid ==
    Selected /\ \E r \in stats_df : r.sample = positive_control /\ r.valid = "Invalid"

SelectedValid ==
    Selected /\ \E r \in stats_df : r.sample = positive_control /\ r.valid = "Valid"

\* C1: whenever the negative control criterion fails, the final stored status of
\* the run is Fail, whatever the positive control selection
C1_NegativeControlFailIsFinal ==
    (pc = "done" /\ NegativeControlFails) => assay_status = "Fail"

\* C2: within a run, once the stored status is Fail every later step leaves it Fail
C2_FailIsPermanent ==
    [][(assay_status = "Fail" /\ pc' \notin {"effector", "idle"})
            => assay_status' = "Fail"]_vars

\* C3: without a sample group named as a negative control the status is never Pass
C3_NoNegativeControlNeverPass ==
    (\A i \in 1..Len(all_sample_names) : ~is_med_only_sample(all_sample_names[i].name))
        => assay_status # "Pass"

\* a finished run without negative control group whose selected positive control
\* is Valid
C3_Witness ==
    /\ pc = "done"
    /\ HaveData
    /\ \A i \in 1..Len(all_sample_names) : ~is_med_only_sample(all_sample_names[i].name)
    /\ SelectedValid
    /\ assay_status = "Fail"

\* C4: a selected positive control whose statistics say Invalid makes the final
\* status Fail, also when the negative control criterion passed
C4_InvalidPositiveControlFails ==
    (pc = "done" /\ SelectedInvalid) => assay_status = "Fail"

C4_Witness ==
    /\ pc = "done"
    /\ SelectedInvalid
    /\ NegativeControlPasses
    /\ assay_status = "Fail"

\* C5: negative control criterion passed and no positive control selected: the
\* final status is Pending
C5_NoPositiveControlPending ==
    (pc = "done" /\ NegativeControlPasses /\ positive_control = NONE_OPTION)
        => assay_status = "Pending"

C5_Witness ==
    /\ pc = "done"
    /\ NegativeControlPasses
    /\ positive_control = NONE_OPTION
    /\ assay_status = "Pending"

\* the status has been determined and stored
StatusStored == pc \in {"analysis", "statistics", "pc_validation", "finalize", "done"}

\* C6 as stated: with an empty grouping, an absent or empty table or a table
\* without "Time (Hour)", determine_assay_status and the stored status are Pending
C6_MissingInputPending ==
    (/\ StatusStored
     /\ \/ extracted_treatment_data = << >>
        \/ ~main_data_df.present
        \/ main_data_df.nrows = 0
        \/ "Time (Hour)" \notin main_data_df.columns)
        => /\ determine_assay_status(extracted_treatment_data, main_data_df,
                                     effector_time_hours) = "Pending"
           /\ assay_status = "Pending"

\* C6 amended: with an empty grouping or an absent or empty table,
\* determine_assay_status and the stored status are Pending; with a grouping and
\* a non-empty table without "Time (Hour)", determine_assay_status is Fail
C6_MissingInputPendingOrFail ==
    /\ (/\ StatusStored
        /\ \/ extracted_treatment_data = << >>
           \/ ~main_data_df.present
           \/ main_data_df.nrows = 0)
          => /\ determine_assay_status(extracted_treatment_data, main_data_df,
                                       effector_time_hours) = "Pending"
             /\ assay_status = "Pending"
    /\ (/\ StatusStored
        /\ HaveData
        /\ "Time (Hour)" \notin main_data_df.columns)
          => /\ determine_assay_status(extracted_treatment_data, main_data_df,
                                       effector_time_hours) = "Fail"
             /\ das_result = "Fail"

\* a run over a table without "Time (Hour)" and one over an empty grouping
C6_Witness ==
    /\ pc = "analysis"
    /\ HaveData
    /\ "Time (Hour)" \notin main_data_df.columns
    /\ assay_status = "Fail"

\* C7: a CD19 or BCMA well is reported killed exactly when some value of the
\* windowed series after its first maximum is strictly below half of the maximum
C7_KilledIffDropsBelowHalf ==
    (Analysed /\ assay_type \in {"CD19", "BCMA"})
        => \A i \in RowIndices :
              LET r == closest_to_half_target_data[i]
              IN  r.killed = "Yes" <=> DropsBelowHalf(ColumnOf(r), Window)

\* C8: a well without a value below half of the maximum after the maximum is
\* reported not killed, with no half-killing time and no closest time
C8_NoCrossingNoTime ==
    Analysed
        => \A i \in RowIndices :
              LET r == closest_to_half_target_data[i]
              IN  ~DropsBelowHalf(ColumnOf(r), Window)
                    => /\ r.killed = "No"
                       /\ r.half_killing = None
                       /\ r.closest_hour = None

\* a CD19 row of a well that never drops below half although points follow
\* its maximum
C8_Witness ==
    /\ Analysed
    /\ assay_type = "CD19"
    /\ \E i \in RowIndices :
          LET r == closest_to_half_target_data[i]
          IN  /\ ~DropsBelowHalf(ColumnOf(r), Window)
              /\ \E j \in notna(ColumnOf(r), Window) : j > idxmax(ColumnOf(r), Window)
              /\ r.killed = "No"
              /\ r.half_killing = None

\* the row of the example series
ExampleRow ==
    [sample |-> SSS1, well |-> "Y (A1)", killed |-> "Yes", max_val |-> 95,
     time_max |-> Hours(3), closest_hour |-> Hours(5), half_killing |-> Hours(2)]

\* C9: the half-killing time of a killed well is the time of the point after the
\* maximum closest to half of the maximum (the earliest among equals) minus the
\* time of the maximum; the example series gives 3 h, 5 h and 2 h
C9_HalfKillingTime ==
    Analysed
        => /\ \A i \in RowIndices :
                 LET r == closest_to_half_target_data[i]
                     m == idxmax(ColumnOf(r), Window)
                     c == CrossingPoint(ColumnOf(r), Window)
                 IN  r.killed = "Yes"
                       => /\ r.time_max = main_data_df.time[m]
                          /\ r.closest_hour = main_data_df.time[c]
                          /\ r.half_killing = main_data_df.time[c] - main_data_df.time[m]
           /\ (main_data_df = ExampleTable /\ assay_type \in {"CD19", "BCMA"})
                 => closest_to_half_target_data = << ExampleRow >>

C9_Witness ==
    /\ pc = "done"
    /\ main_data_df = ExampleTable
    /\ closest_to_half_target_data = << ExampleRow >>

\* C10: with an unknown assay type no well gets a result row
C10_UnknownTypeNoRow ==
    assay_type = "Unknown" => closest_to_half_target_data = << >>

\* the statistics are computed
HaveStatistics == pc \in {"pc_validation", "finalize", "done"}

\* the %CV of the half-killing times of a row is above 30: with n values, their
\* sum S and the sum P of the squared pairwise differences,
\* (std / mean)^2 = P * n / ((n - 1) * S^2) > 0.09
CvAbove30(r) ==
    /\ r.hk_count >= 2
    /\ r.hk_pair_squares > 0
    /\ r.hk_pair_squares * r.hk_count
          > (9 * (r.hk_count - 1) * r.hk_sum * r.hk_sum) \div 100

\* the mean of the half-killing times of a row is at most 12 hours
MeanWithin12(r) == r.hk_count >= 1 /\ r.hk_sum <= Hours(12) * r.hk_count

\* C11: a sample is Valid exactly when its kill summary is "All Yes", its %CV is
\* at most 30, its mean half-killing time is at most 12 hours and it has no
\* recovery; the bounds are those of the computed %CV and mean
C11_ValidIff ==
    HaveStatistics
        => \A r \in stats_df :
              r.valid = "Valid" <=> /\ r.kill_summary.text = "All Yes"
                                    /\ ~CvAbove30(r)
                                    /\ MeanWithin12(r)
                                    /\ ~r.recovery

\* the wells of the deciding negative control group
ControlWells == SeqToSet(valid_well_columns(DecidingControls[1], main_data_df))

\* the wells of the deciding group that have a value at row i
WellsAt(i) == {w \in ControlWells : main_data_df.cell[w][i] # NaN}

RECURSIVE SumAt(_, _)
\* the sum of the values of the wells S at row i
SumAt(S, i) ==
    IF S = {} THEN 0
    ELSE LET w == CHOOSE x \in S : TRUE
         IN  main_data_df.cell[w][i] + SumAt(S \ {w}, i)

\* the average at the final time point of the window exists and twice that
\* average is strictly greater than the average at every time point of the window
LastAverageAboveHalfMax ==
    LET last == SetMax(Window)
    IN  /\ WellsAt(last) # {}
        /\ \A i \in Window :
               WellsAt(i) # {}
                 => 2 * SumAt(WellsAt(last), last) * Cardinality(WellsAt(i))
                      > SumAt(WellsAt(i), i) * Cardinality(WellsAt(last))

\* C12: the negative control criterion passes exactly when the average over the
\* group's wells at the final time point of the window is strictly greater than
\* half of the maximum of the per-time-point averages; a time point's average
\* uses the wells that have a value there
C12_AveragedCriterion ==
    (StatusStored /\ HaveData /\ "Time (Hour)" \in main_data_df.columns
                  /\ DecidingControls # << >>)
        => (das_result = "Pass" <=> LastAverageAboveHalfMax)

\* a group of two wells whose last average is exactly half of the maximum of
\* the averages, one well without a value at some time point
C12_Witness ==
    /\ StatusStored /\ HaveData /\ DecidingControls # << >>
    /\ Cardinality(ControlWells) = 2
    /\ \E i \in Window : Cardinality(WellsAt(i)) = 1
    /\ LET last == SetMax(Window)
       IN  /\ WellsAt(last) # {}
           /\ \E i \in Window :
                  /\ WellsAt(i) # {}
                  /\ 2 * SumAt(WellsAt(last), last) * Cardinality(WellsAt(i))
                        = SumAt(WellsAt(i), i) * Cardinality(WellsAt(last))
                  /\ SumAt(WellsAt(i), i) > 0
    /\ das_result = "Fail"

\* the rows whose time is closest to the reference time t_ref
ClosestSamples(t_ref) ==
    {c \in AllRows(main_data_df) :
        \A j \in AllRows(main_data_df) :
            AbsDiff(main_data_df.time[c], t_ref) <= AbsDiff(main_data_df.time[j], t_ref)}

\* the rows from the row c on, in the order of time
From(c) == {i \in AllRows(main_data_df) : main_data_df.time[i] >= main_data_df.time[c]}

OtherType == IF assay_type = "CD19" THEN "BCMA" ELSE "CD19"

\* the statistics of the same workbook analysed as the other assay type
OtherStatistics ==
    IF HaveData
    THEN statistics(detailed_analysis(extracted_treatment_data, main_data_df,
                                      effector_time_hours, OtherType).rows,
                    extracted_treatment_data, main_data_df, effector_time_hours,
                    OtherType)
    ELSE {}

\* the final status of the same workbook and selection analysed as the other
\* assay type
OtherStatus ==
    LET determined == IF HaveData THEN das_result ELSE "Pending"
        validated ==
            IF Selected /\ \E r \in pc_row(OtherStatistics, positive_control) :
                              r.valid = "Invalid"
            THEN "Fail" ELSE determined
    IN  final_assay_status(validated, positive_control, OtherStatistics)

\* the verdict of every sample
Validity(stats) == {<< r.sample, r.valid >> : r \in stats}

\* C14: the final status and the validity of every sample are the same when the
\* workbook is analysed as CD19 (threshold 0.8) and as BCMA (threshold 0.4), and
\* a sample's validity is determined by its kill summary, %CV verdict, mean and
\* recovery, whatever the threshold violations and the replicate counts
C14_AdvisoryFlagsDoNotDecide ==
    (pc = "done" /\ assay_type \in {"CD19", "BCMA"})
        => /\ Validity(stats_df) = Validity(OtherStatistics)
           /\ assay_status = OtherStatus
           /\ \A r \in stats_df :
                  r.valid = "Valid" <=> /\ r.kill_summary.text = "All Yes"
                                        /\ r.cv_pass_fail = "Pass"
                                        /\ r.hk_count >= 1
                                        /\ 4 * r.hk_sum < 12005 * r.hk_count
                                        /\ ~r.recovery

\* a CD19 run with a Valid sample of fewer than 3 replicates, one of them flagged
\* with a maximum below 0.8 that is not below 0.4
C14_Witness ==
    /\ pc = "done"
    /\ assay_type = "CD19"
    /\ \E r \in stats_df :
          /\ r.valid = "Valid"
          /\ r.replicates < 3
          /\ \E i \in 1..Len(threshold_violations) :
                 /\ threshold_violations[i].sample = r.sample
                 /\ series_max(main_data_df.cell[threshold_violations[i].well], Window)
                       >= threshold_value("BCMA")

\* the well has no value in the window
AbsentInWindow(well) == notna(main_data_df.cell[well], Window) = {}

\* the grouping without the wells that have no value in the window
GroupingWithoutAbsentWells ==
    [g \in 1..Len(extracted_treatment_data) |->
        [k \in 1..Len(extracted_treatment_data[g]) |->
            [extracted_treatment_data[g][k] EXCEPT
                !.input_ids = SelectSeq(@, LAMBDA w : w \notin main_data_df.columns
                                                      \/ ~AbsentInWindow(w))]]]

\* kill summary, number, sum and spread of the half-killing times, %CV verdict
\* and validity of every sample
Aggregation(stats) ==
    {[sample |-> r.sample, kill_summary |-> r.kill_summary, hk_count |-> r.hk_count,
      hk_sum |-> r.hk_sum, hk_pair_squares |-> r.hk_pair_squares,
      cv_pass_fail |-> r.cv_pass_fail, valid |-> r.valid] : r \in stats}

\* the samples of the detailed analysis and their wells in the table
AnalysedSamples ==
    SelectSeq(all_sample_names, LAMBDA s : ~is_med_only_sample(s.name))

\* C15: a well without a value in the window gets no result row, the other wells
\* of its sample that have a point after their maximum get their row, and the
\* aggregation of every sample is the one of the grouping without that well
C15_AbsentWellContributesNothing ==
    (HaveStatistics /\ HaveData /\ TimeColumns \subseteq main_data_df.columns)
        => /\ \A i \in RowIndices :
                  ~AbsentInWindow(closest_to_half_target_data[i].well)
           /\ assay_type \in {"CD19", "BCMA"}
                 => \A k \in 1..Len(AnalysedSamples) :
                       \A w \in SeqToSet(valid_well_columns(AnalysedSamples[k],
                                                             main_data_df)) :
                          (/\ ~AbsentInWindow(w)
                           /\ notna(main_data_df.cell[w],
                                    data_after_max(main_data_df.cell[w], Window)) # {})
                             => \E i \in RowIndices :
                                   closest_to_half_target_data[i].well = w
           /\ Aggregation(stats_df)
                = Aggregation(
                    statistics(
                      detailed_analysis(GroupingWithoutAbsentWells, main_data_df,
                                        effector_time_hours, assay_type).rows,
                      GroupingWithoutAbsentWells, main_data_df,
                      effector_time_hours, assay_type))

Marked ==
    {i \in 1..Len(all_sample_names) :
        \E k \in 1..(Len(all_sample_names[i].name) - 2) :
            SubSeq(all_sample_names[i].name, k, k + 2) = <<"S", "S", "S">>}

\* the selection step can store the name n
CanSelect(n) == ENABLED (SelectPositiveControl /\ positive_control' = n)

\* the selection step can store something else than the name n
CanSelectOtherThan(n) == ENABLED (SelectPositiveControl /\ positive_control' # n)

AtSelection == pc = "select" /\ main_data_df.sheet

\* C17 as stated: the selection is automatic when exactly one sample name
\* contains "SSS"; with none or with two or more the operator chooses, "None"
\* included
C17_AutoSelectOnlyWhenUnique ==
    AtSelection
        => /\ Cardinality(Marked) = 1
                 => ~CanSelectOtherThan(all_sample_names[SetMin(Marked)].name)
           /\ Cardinality(Marked) # 1 => CanSelect(NONE_OPTION)

\* C17 amended: whenever at least one sample name contains "SSS" the first such
\* name of the grouping is selected and the operator has no choice; with none the
\* operator chooses among "None" and the sample names
C17_AutoSelectFirstMarked ==
    /\ AtSelection
          => /\ Marked # {}
                   => ~CanSelectOtherThan(all_sample_names[SetMin(Marked)].name)
             /\ Marked = {}
                   => /\ CanSelect(NONE_OPTION)
                      /\ \A i \in 1..Len(all_sample_names) :
                             CanSelect(all_sample_names[i].name)
    /\ (pc \notin {"effector", "select", "idle"} /\ main_data_df.sheet /\ Marked # {})
          => positive_control = all_sample_names[SetMin(Marked)].name

\* two sample names contain "SSS" and the first of them is the stored selection
C17_Witness ==
    /\ pc = "done"
    /\ Cardinality(Marked) = 2
    /\ positive_control = all_sample_names[SetMin(Marked)].name

\* the audit trail has been read
Resolved == pc \notin {"effector", "idle"}

\* the positions of the rows whose Reason marks the effector addition, and of
\* the 'Continue Experiment' actions
ReasonRows ==
    {k \in 1..Len(audit_trail.rows) :
        /\ "Reason" \in audit_trail.columns
        /\ audit_trail.rows[k].Reason \in {"Added Effector", "effectors added"}}

ContinueRows ==
    {k \in 1..Len(audit_trail.rows) :
        audit_trail.rows[k].Action = "Continue Experiment"}

\* the row of the largest ID among the rows S
LargestId(S) ==
    CHOOSE k \in S : \A j \in S : audit_trail.rows[j].ID <= audit_trail.rows[k].ID

\* the Experiment Time of the row reads as HH:MM:SS
ReadsAsTime(k) ==
    Len(audit_trail.rows[k].time.parts) = 3 /\ audit_trail.rows[k].time.numeric

\* HH:MM:SS in ticks
TimeOfRow(k) ==
    LET t == audit_trail.rows[k].time.parts
    IN  Hours(t[1]) + (Hours(t[2]) \div 60) + (Hours(t[3]) \div 3600)

\* C18: the reference time is the time of the Reason row of the largest ID that
\* marks the effector addition; without such a row, that of the larger ID of
\* exactly two 'Continue Experiment' actions; otherwise it is absent; and an
\* absent reference time always comes with a warning
C18_EffectorTimePriority ==
    Resolved
        => /\ (/\ audit_trail.columns = AuditColumns
               /\ audit_trail.sheet # ""
               /\ ReasonRows # {}
               /\ ReadsAsTime(LargestId(ReasonRows)))
                 => effector_time_hours = TimeOfRow(LargestId(ReasonRows))
           /\ (/\ audit_trail.columns = AuditColumns
               /\ audit_trail.sheet # ""
               /\ ReasonRows = {}
               /\ Cardinality(ContinueRows) = 2
               /\ ReadsAsTime(LargestId(ContinueRows)))
                 => effector_time_hours = TimeOfRow(LargestId(ContinueRows))
           /\ (\/ audit_trail.sheet = ""
               \/ ReasonRows = {} /\ Cardinality(ContinueRows) # 2)
                 => effector_time_hours = None
           /\ effector_time_hours = None => effector_warning # "None"

\* what the calculation gives for the well alone, from its own series, the assay
\* type and the reference time
WellAlone(sample, well) ==
    half_killing_calc(main_data_df, effector_time_hours, assay_type, sample, well,
                      ReportUnset)

\* C19: every result row is the one that the well gives alone, and every well
\* that gives a row alone has it, whatever the other wells and the order of the
\* wells and samples
C19_WellsAreIndependent ==
    (Analysed /\ HaveData /\ TimeColumns \subseteq main_data_df.columns)
        => /\ \A i \in RowIndices :
                  LET r == closest_to_half_target_data[i]
                  IN  /\ WellAlone(r.sample, r.well).kind = "row"
                      /\ WellAlone(r.sample, r.well).row = r
           /\ \A k \in 1..Len(AnalysedSamples) :
                  \A w \in SeqToSet(valid_well_columns(AnalysedSamples[k],
                                                        main_data_df)) :
                     WellAlone(AnalysedSamples[k].name, w).kind = "row"
                       => \E i \in RowIndices :
                             closest_to_half_target_data[i]
                               = WellAlone(AnalysedSamples[k].name, w).row

\* the points of the window after the first maximum of the column
PointsAfterMax(col) == {j \in Window : j > idxmax(col, Window)}

\* C20 as stated: a well with fewer than 2 points after the maximum of its
\* windowed series is reported not killed
C20_FewerThanTwoPointsNotKilled ==
    (Analysed /\ assay_type \in {"CD19", "BCMA"})
        => \A i \in RowIndices :
              LET r == closest_to_half_target_data[i]
              IN  (/\ notna(ColumnOf(r), Window) # {}
                   /\ Cardinality(PointsAfterMax(ColumnOf(r))) < 2)
                     => r.killed = "No"

\* C20 amended: a well with no point after the maximum of its windowed series is
\* reported not killed; a single point after the maximum is evaluated: in a
\* series that the window leaves whole the well is reported killed exactly when
\* that point is strictly below half of the maximum
C20_NoPointAfterMaxNotKilled ==
    (Analysed /\ assay_type \in {"CD19", "BCMA"})
        => \A i \in RowIndices :
              LET r == closest_to_half_target_data[i]
                  after == PointsAfterMax(ColumnOf(r))
              IN  notna(ColumnOf(r), Window) # {}
                    => /\ after = {}
                             => /\ r.killed = "No"
                                /\ r.half_killing = None
                       /\ (Cardinality(after) = 1 /\ Window = AllRows(main_data_df))
                             => (r.killed = "Yes"
                                   <=> \E j \in after :
                                          /\ ColumnOf(r)[j] # NaN
                                          /\ 2 * ColumnOf(r)[j]
                                                < series_max(ColumnOf(r), Window))

\* a well reported killed by the single point after its maximum
C20_Witness ==
    /\ Analysed
    /\ assay_type \in {"CD19", "BCMA"}
    /\ \E i \in RowIndices :
          LET r == closest_to_half_target_data[i]
          IN  /\ notna(ColumnOf(r), Window) # {}
              /\ Cardinality(PointsAfterMax(ColumnOf(r))) = 1
              /\ r.killed = "Yes"
              /\ r.half_killing # None

\* the detailed analysis ran over the wells of the samples
WellsAnalysed == Analysed /\ HaveData /\ TimeColumns \subseteq main_data_df.columns

\* the rise threshold of the assay type of the file, in hundredths
RiseThreshold == IF assay_type = "CD19" THEN 80 ELSE 40

\* a threshold violation is recorded for the well
ViolationRecorded(well) ==
    \E i \in 1..Len(threshold_violations) : threshold_violations[i].well = well

\* the largest value of the column in the window and the first row that has it
WindowMax(col) == SetMax({col[i] : i \in {j \in Window : col[j] # NaN}})

FirstMaxRow(col) == SetMin({i \in Window : col[i] = WindowMax(col)})

\* C21: the maximum of a CD19 or BCMA well is the largest value of its window, at
\* the first row that has it; a threshold violation is recorded for the well
\* exactly when that maximum is strictly below the rise threshold of the assay
\* type; killed status and half-killing time do not depend on the violation
C21_ThresholdViolationIffBelow ==
    (WellsAnalysed /\ assay_type \in {"CD19", "BCMA"})
        => /\ \A k \in 1..Len(AnalysedSamples) :
                  \A w \in SeqToSet(valid_well_columns(AnalysedSamples[k],
                                                        main_data_df)) :
                     ~AbsentInWindow(w)
                       => (ViolationRecorded(w)
                             <=> WindowMax(main_data_df.cell[w]) < RiseThreshold)
           /\ \A i \in RowIndices :
                  LET r == closest_to_half_target_data[i]
                  IN  ~AbsentInWindow(r.well)
                        => /\ r.max_val = WindowMax(ColumnOf(r))
                           /\ r.time_max = main_data_df.time[FirstMaxRow(ColumnOf(r))]
                           /\ r.killed = killed_status(ColumnOf(r), Window)
                           /\ r.killed = "Yes"
                                 => r.half_killing
                                      = main_data_df.time[CrossingPoint(ColumnOf(r), Window)]
                                          - r.time_max

\* the result rows of a sample that are reported killed
KilledRows(name) ==
    SelectSeq(closest_to_half_target_data,
              LAMBDA r : r.sample = name /\ r.killed = "Yes")

RECURSIVE HalfKillingSum(_)
\* the sum of the half-killing times of the rows
HalfKillingSum(rows) ==
    IF rows = << >> THEN 0 ELSE Head(rows).half_killing + HalfKillingSum(Tail(rows))

\* C22: the mean and the standard deviation of a sample are those of the
\* half-killing times of exactly its replicates reported killed; the others
\* contribute nothing; with fewer than 2 killed replicates the standard deviation
\* is absent
C22_StatisticsOverKilledReplicates ==
    HaveStatistics
        => \A r \in stats_df :
              LET yes == KilledRows(r.sample)
              IN  /\ \A i \in 1..Len(yes) : yes[i].half_killing # None
                  /\ r.hk_count = Len(yes)
                  /\ r.hk_sum = HalfKillingSum(yes)
                  /\ r.std = "NaN" <=> Len(yes) < 2

\* a sample with one replicate killed and one not
C22_Witness ==
    /\ HaveStatistics
    /\ \E r \in stats_df :
          /\ r.kill_summary.yes = 1
          /\ r.kill_summary.no = 1
          /\ r.hk_count = 1
          /\ r.hk_sum > 0
          /\ r.std = "NaN"

\* in its own window the well has a value after its first maximum strictly below
\* half of that maximum and a last value strictly above half of it
Recovers(col) ==
    /\ {j \in Window : col[j] # NaN} # {}
    /\ \E j \in Window : /\ j > FirstMaxRow(col)
                         /\ col[j] # NaN
                         /\ 2 * col[j] < WindowMax(col)
    /\ col[SetMax(Window)] # NaN
    /\ 2 * col[SetMax(Window)] > WindowMax(col)

\* the wells of the series table that the grouping lists for the sample
WellsOfSample(name) ==
    UNION {SeqToSet(valid_well_columns(AnalysedSamples[k], main_data_df)) :
              k \in {i \in 1..Len(AnalysedSamples) : AnalysedSamples[i].name = name}}

Listed(name) ==
    {all_sample_names[i] : i \in {k \in 1..Len(all_sample_names) :
                                     all_sample_names[k].name = name}}

\* C24: the replicate count of a sample of the statistics table is the number of
\* distinct wells that the grouping lists for it, whether or not they are columns
\* of the series table or gave a result row; the grouping lists no well twice
C24_ReplicatesFromGrouping ==
    /\ \A i \in 1..Len(all_sample_names) :
          Len(all_sample_names[i].input_ids)
              = Cardinality(SeqToSet(all_sample_names[i].input_ids))
    /\ HaveStatistics
          => \A r \in stats_df :
                /\ Cardinality(Listed(r.sample)) = 1
                /\ \A s \in Listed(r.sample) :
                       r.replicates = Cardinality(SeqToSet(s.input_ids))

\* a sample with more listed wells than result rows, one of them not a column of
\* the series table
C24_Witness ==
    /\ HaveStatistics
    /\ \E r \in stats_df :
          /\ r.replicates = 2
          /\ Len(RowsOf(closest_to_half_target_data, r.sample)) = 1
          /\ \E s \in Listed(r.sample) :
                 \E w \in SeqToSet(s.input_ids) : w \notin main_data_df.columns

\* the name starts with "med" or "cmm" in any case, or has the word "only" with
\* no word character next to it
NegativeControlName(name) ==
    LET low == StrLower(name)
    IN  \/ Len(low) >= 3 /\ SubSeq(low, 1, 3) \in {<<"m", "e", "d">>, <<"c", "m", "m">>}
        \/ \E i \in 1..Len(low) :
               /\ i + 3 <= Len(low)
               /\ SubSeq(low, i, i + 3) = <<"o", "n", "l", "y">>
               /\ i > 1 => ~IsWordChar(low[i - 1])
               /\ i + 3 < Len(low) => ~IsWordChar(low[i + 4])

\* C25: a sample named as a negative control has no result row, no threshold
\* violation and no row of the statistics table
C25_NegativeControlsNotAnalysed ==
    /\ \A i \in RowIndices :
          ~NegativeControlName(closest_to_half_target_data[i].sample)
    /\ \A i \in 1..Len(threshold_violations) :
          ~NegativeControlName(threshold_violations[i].sample)
    /\ \A r \in stats_df : ~NegativeControlName(r.sample)

\* a run that analysed a sample while the grouping has a negative control whose
\* well has values
C25_Witness ==
    /\ pc = "done"
    /\ stats_df # {}
    /\ \E i \in 1..Len(all_sample_names) :
          /\ NegativeControlName(all_sample_names[i].name)
          /\ \E w \in SeqToSet(valid_well_columns(all_sample_names[i], main_data_df)) :
                 ~AbsentInWindow(w)

\* what the finished run of the current file stores
CurrentResult ==
    current_file_results(uploaded_file, assay_status, closest_to_half_target_data,
                         stats_df)

\* C26: after any sequence of runs the session holds at most one result, the one
\* of the finished run of the current file; nothing while a run has not stored
\* its result and nothing after a run without file
C26_OnlyCurrentResult ==
    /\ Cardinality(all_files_results) <= 1
    /\ \A e \in all_files_results : pc = "done" /\ e = CurrentResult
    /\ (pc = "done" /\ main_data_df.sheet) => all_files_results = {CurrentResult}
    /\ pc = "idle" => all_files_results = {}

\* a later run of another file has finished and stored its result
C26_Witness ==
    /\ pc = "done"
    /\ uploaded_file \in LaterFileNames
    /\ all_files_results = {CurrentResult}
    /\ stats_df # {}

\* the half-killing highlights and the killed rows of a well of a sample
Highlights(name, well) ==
    {h \in highlighting_data : h.sample = name /\ h.well = well}

KilledRowsOfWell(name, well) ==
    {i \in RowIndices : /\ closest_to_half_target_data[i].sample = name
                        /\ closest_to_half_target_data[i].well = well
                        /\ closest_to_half_target_data[i].killed = "Yes"}

\* C27: for every well of an analysed sample of a CD19 or BCMA file a half-killing
\* highlight is recorded exactly when the summary has a row of the well with
\* killed 'Yes', and the highlighted row is then the one whose time the summary
\* reports as closest to half of the maximum
C27_HighlightAgreesWithSummary ==
    (WellsAnalysed /\ assay_type \in {"CD19", "BCMA"})
        => \A k \in 1..Len(AnalysedSamples) :
              \A w \in SeqToSet(valid_well_columns(AnalysedSamples[k], main_data_df)) :
                 LET name == AnalysedSamples[k].name
                 IN  /\ Highlights(name, w) # {} <=> KilledRowsOfWell(name, w) # {}
                     /\ \A h \in Highlights(name, w) :
                            \A i \in KilledRowsOfWell(name, w) :
                               closest_to_half_target_data[i].closest_hour
                                   = main_data_df.time[h.index]

\* C28: at the end of a run the criteria 1 and 2 of the checklist both show Pass
\* exactly when determine_assay_status returned 'Pass'
C28_ChecklistAgreesWithStatus ==
    (pc = "done" /\ main_data_df.sheet)
        => ((checklist.med_sample_found /\ checklist.local_max_criteria_pass)
               <=> das_result = "Pass")

\* C29: a run ends with the status Pass only when the statistics table has a row
\* of the selected positive control and that row says Valid
C29_PassNeedsValidPositiveControl ==
    (pc = "done" /\ assay_status = "Pass")
        => \E r \in stats_df : r.sample = positive_control /\ r.valid = "Valid"

\* the rows of the window whose time is the reported closest time of the row
ReportedCrossings(r) == {j \in Window : main_data_df.time[j] = r.closest_hour}

\* the time axis never decreases
NonDecreasingTime ==
    \A i, j \in AllRows(main_data_df) :
        i <= j => main_data_df.time[i] <= main_data_df.time[j]

\* C30: on a time axis that never decreases a reported half-killing time belongs
\* to a killed well, is not negative, and is the distance from the maximum to a
\* row strictly after the row of the maximum
C30_HalfKillingTimeNotNegative ==
    (WellsAnalysed /\ NonDecreasingTime)
        => \A i \in RowIndices :
              LET r == closest_to_half_target_data[i]
              IN  r.half_killing # None
                    => /\ r.killed = "Yes"
                       /\ r.half_killing >= 0
                       /\ r.half_killing = r.closest_hour - r.time_max
                       /\ ReportedCrossings(r) # {}
                       /\ \A j \in ReportedCrossings(r) : j > FirstMaxRow(ColumnOf(r))

\* a killed well whose maximum is after the first row and whose half-killing
\* time is reported
C30_Witness ==
    /\ pc = "done"
    /\ NonDecreasingTime
    /\ \E i \in RowIndices :
          /\ closest_to_half_target_data[i].killed = "Yes"
          /\ closest_to_half_target_data[i].time_max > 0
          /\ closest_to_half_target_data[i].half_killing > 0

====
